---- MODULE Spec2Model ----
(***************************************************************************)
(* Sail-force estimator: the Force Model (compute, physics.ts), the        *)
(* Top-Speed Solver (topSpeed, App.tsx) and the preset store (presets.ts). *)
(*                                                                         *)
(* Numbers.  The program computes in IEEE doubles.  Here the inputs and    *)
(* the outputs of compute are fixed-point integers counting 1/Scale of     *)
(* their unit (metres per second, degrees, newtons, ...): 8.5 m/s is 8500. *)
(* Inside compute the sines and the components of the apparent wind are    *)
(* held to sixteen decimals (see Long numbers), the speed, the angles and  *)
(* the coefficients count 1/Fine of their unit and forces 1/Scale;         *)
(* products and quotients round to the nearest.  What a rounded number     *)
(* cannot show and yet decides what the program does is modelled as the    *)
(* doubles have it: the sign and the exactness of an apparent-wind         *)
(* component that is zero or next to it (see Doubles), which Math.atan2    *)
(* reads, and the accumulation V += 0.1 of the sweep (see DAdd).  Where a  *)
(* last bit of the doubles decides and the language leaves it to the       *)
(* engine, every outcome is taken: compute and the comparison of the sweep *)
(* are sets of outcomes (see Minus, NormalizedAlphas, Sustains).           *)
(***************************************************************************)
EXTENDS Integers, Naturals, Sequences, FiniteSets, TLC

Scale == 10 ^ 3
Fine == 10 ^ 6

\* The element of a one-element set.  The({ body : x \in {e} }) is the
\* program's "const x = e; body": e is evaluated once and body sees its value.
The(S) == CHOOSE x \in S : TRUE

Abs(x) == IF x < 0 THEN -x ELSE x
Sgn(x) == IF x < 0 THEN -1 ELSE IF x > 0 THEN 1 ELSE 0

\* a * b / Scale to the nearest integer, computed in parts so that no
\* intermediate value leaves the 32-bit range.
FMulParts(a, b) ==
    LET xh == Abs(a) \div Scale
        xl == Abs(a) % Scale
        yh == Abs(b) \div Scale
        yl == Abs(b) % Scale
    IN  Sgn(a) * Sgn(b) *
          (xh * yh * Scale + xh * yl + xl * yh + (xl * yl + Scale \div 2) \div Scale)
FMul(a, b) == The({ FMulParts(p[1], p[2]) : p \in {<< a, b >>} })

\* a * b / Fine to the nearest integer, in parts
FineMulParts(a, b) ==
    LET xh == Abs(a) \div Scale
        xl == Abs(a) % Scale
        yh == Abs(b) \div Scale
        yl == Abs(b) % Scale
        t == ((xh * yl) % Scale) + ((xl * yh) % Scale)
    IN  Sgn(a) * Sgn(b) *
          (xh * yh + (xh * yl) \div Scale + (xl * yh) \div Scale
             + (t * Scale + xl * yl + Fine \div 2) \div Fine)
FineMul(a, b) == The({ FineMulParts(p[1], p[2]) : p \in {<< a, b >>} })

\* a number of 1/Fine as a number of 1/Scale, to the nearest
ToScale(x) == Sgn(x) * ((Abs(x) + Scale \div 2) \div Scale)

\* r / m for 0 <= r < m, as n decimal digits after q, rounded to the nearest
RECURSIVE LongDivision(_, _, _, _)
LongDivision(q, r, m, n) ==
    IF n = 0 THEN q + (IF 2 * r >= m THEN 1 ELSE 0)
    ELSE The({ LongDivision(p[1], p[2], m, n - 1)
               : p \in {<< 10 * q + (10 * r) \div m, (10 * r) % m >>} })

Min(a, b) == IF a <= b THEN a ELSE b
Max(a, b) == IF a >= b THEN a ELSE b

(***************************************************************************)
(* Long numbers, for the sines and the components of the apparent wind.    *)
(* A Long is a non-negative number of sixteen decimals in six limbs of     *)
(* base Myriad: << i1, i0, f1, f2, f3, f4 >> is                            *)
(* i1 * 10^4 + i0 + f1 / 10^4 + f2 / 10^8 + f3 / 10^12 + f4 / 10^16,       *)
(* about the 53 bits of a double for the numbers around 1 held here.       *)
(***************************************************************************)
Myriad == 10 ^ 4
LongZero == << 0, 0, 0, 0, 0, 0 >>

\* the carries taken from the last limb up
Settle(limbs) ==
    The({ The({ The({ The({ The({
      << c[1] + t2 \div Myriad, t2 % Myriad, t3 % Myriad, t4 % Myriad,
         t5 % Myriad, c[6] % Myriad >>
      : t2 \in {c[2] + t3 \div Myriad} })
      : t3 \in {c[3] + t4 \div Myriad} })
      : t4 \in {c[4] + t5 \div Myriad} })
      : t5 \in {c[5] + c[6] \div Myriad} })
      : c \in {limbs} })

\* x + y
LongAdd(x, y) ==
    The({ Settle(<< p[1][1] + p[2][1], p[1][2] + p[2][2], p[1][3] + p[2][3],
                    p[1][4] + p[2][4], p[1][5] + p[2][5], p[1][6] + p[2][6] >>)
          : p \in {<< x, y >>} })

\* x - y, for x >= y
LongSub(x, y) ==
    The({ Settle(<< p[1][1] - p[2][1], p[1][2] - p[2][2], p[1][3] - p[2][3],
                    p[1][4] - p[2][4], p[1][5] - p[2][5], p[1][6] - p[2][6] >>)
          : p \in {<< x, y >>} })

\* x <= y
LongLeq(x, y) ==
    The({ \/ p[1] = p[2]
          \/ \E i \in 1 .. 6 :
               /\ p[1][i] < p[2][i]
               /\ \A j \in 1 .. (i - 1) : p[1][j] = p[2][j]
          : p \in {<< x, y >>} })

\* x * y to the nearest 1e-16, for x or y below Myriad: the columns of the
\* long multiplication, the two beyond the sixteenth decimal rounded off
LongMul(x, y) ==
    The({ The({ Settle(<< c[1], c[2], c[3], c[4], c[5],
                          c[6] + (c[7] + c[8] \div Myriad + Myriad \div 2)
                                   \div Myriad >>)
                : c \in {<< a[1] * b[2] + a[2] * b[1],
                            a[1] * b[3] + a[2] * b[2] + a[3] * b[1],
                            a[1] * b[4] + a[2] * b[3] + a[3] * b[2] + a[4] * b[1],
                            a[1] * b[5] + a[2] * b[4] + a[3] * b[3] + a[4] * b[2]
                              + a[5] * b[1],
                            a[1] * b[6] + a[2] * b[5] + a[3] * b[4] + a[4] * b[3]
                              + a[5] * b[2] + a[6] * b[1],
                            a[2] * b[6] + a[3] * b[5] + a[4] * b[4] + a[5] * b[3]
                              + a[6] * b[2],
                            a[3] * b[6] + a[4] * b[5] + a[5] * b[4] + a[6] * b[3],
                            a[4] * b[6] + a[5] * b[5] + a[6] * b[4] >>} })
          : a \in {x}, b \in {y} })

\* x / n for a small whole number n, by long division from the first limb
RECURSIVE LongOverFrom(_, _, _, _)
LongOverFrom(a, n, i, rem) ==
    IF i > 6 THEN << >>
    ELSE The({ << t \div n >> \o LongOverFrom(a, n, i + 1, t % n)
               : t \in {rem * Myriad + a[i]} })
LongOver(x, n) == The({ LongOverFrom(a, n, 1, 0) : a \in {x} })

\* a plain number v of 1/Scale (an input) as a Long: |v|
Plain(v) ==
    The({ << 0, t \div Myriad, t % Myriad, 0, 0, 0 >>
          : t \in {Abs(v) * (Myriad \div Scale)} })

(***************************************************************************)
(* Math library functions, in degrees.                                     *)
(***************************************************************************)
\* the sixteen decimals of sin(d degrees) for d = 0 .. 89, in four limbs
SinTable ==
  << << 0, 0, 0, 0 >>, << 174, 5240, 6437, 2835 >>, << 348, 9949, 6702, 5010 >>,
     << 523, 3595, 6242, 9438 >>, << 697, 5647, 3744, 1253 >>, << 871, 5574, 2747, 6582 >>,
     << 1045, 2846, 3267, 6535 >>, << 1218, 6934, 3405, 1475 >>, << 1391, 7310, 960, 654 >>,
     << 1564, 3446, 5040, 2309 >>, << 1736, 4817, 7666, 9303 >>, << 1908, 899, 5376, 5448 >>,
     << 2079, 1169, 817, 7593 >>, << 2249, 5105, 4343, 8650 >>, << 2419, 2189, 5599, 6677 >>,
     << 2588, 1904, 5102, 5208 >>, << 2756, 3735, 5816, 9992 >>, << 2923, 7170, 4722, 7367 >>,
     << 3090, 1699, 4374, 9474 >>, << 3255, 6815, 4457, 1567 >>, << 3420, 2014, 3325, 6687 >>,
     << 3583, 6794, 9545, 3003 >>, << 3746, 659, 3415, 9120 >>, << 3907, 3112, 8489, 2738 >>,
     << 4067, 3664, 3075, 8002 >>, << 4226, 1826, 1740, 6994 >>, << 4383, 7114, 6789, 774 >>,
     << 4539, 9049, 9739, 5468 >>, << 4694, 7156, 2785, 8908 >>, << 4848, 962, 246, 3370 >>,
     << 5000, 0, 0, 0 >>, << 5150, 3807, 4910, 542 >>, << 5299, 1926, 4233, 2050 >>,
     << 5446, 3903, 5015, 271 >>, << 5591, 9290, 3470, 7468 >>, << 5735, 7643, 6351, 461 >>,
     << 5877, 8525, 2292, 4731 >>, << 6018, 1502, 3152, 483 >>, << 6156, 6147, 5325, 6583 >>,
     << 6293, 2039, 1049, 8375 >>, << 6427, 8760, 9686, 5393 >>, << 6560, 5902, 8990, 5073 >>,
     << 6691, 3060, 6358, 8582 >>, << 6819, 9836, 62, 4985 >>, << 6946, 5837, 458, 9973 >>,
     << 7071, 678, 1186, 5475 >>, << 7193, 3980, 338, 6511 >>, << 7313, 5370, 1619, 1705 >>,
     << 7431, 4482, 5477, 3942 >>, << 7547, 958, 222, 7720 >>, << 7660, 4444, 3118, 9780 >>,
     << 7771, 4596, 1456, 9709 >>, << 7880, 1075, 3606, 7220 >>, << 7986, 3551, 47, 2928 >>,
     << 8090, 1699, 4374, 9474 >>, << 8191, 5204, 4288, 9918 >>, << 8290, 3757, 2555, 417 >>,
     << 8386, 7056, 7945, 4240 >>, << 8480, 4809, 6156, 4260 >>, << 8571, 6730, 702, 1123 >>,
     << 8660, 2540, 3784, 4386 >>, << 8746, 1970, 7139, 3958 >>, << 8829, 4759, 2858, 9269 >>,
     << 8910, 652, 4188, 3679 >>, << 8987, 9404, 6299, 1670 >>, << 9063, 778, 7036, 6500 >>,
     << 9135, 4545, 7642, 6009 >>, << 9205, 485, 3452, 4403 >>, << 9271, 8385, 4566, 7874 >>,
     << 9335, 8042, 6497, 2017 >>, << 9396, 9262, 785, 9084 >>, << 9455, 1857, 5599, 3168 >>,
     << 9510, 5651, 6295, 1536 >>, << 9563, 475, 5963, 355 >>, << 9612, 6169, 5938, 3189 >>,
     << 9659, 2582, 6289, 683 >>, << 9702, 9572, 6275, 9965 >>, << 9743, 7006, 4785, 2352 >>,
     << 9781, 4760, 733, 8056 >>, << 9816, 2718, 3447, 6640 >>, << 9848, 775, 3012, 2081 >>,
     << 9876, 8834, 595, 1377 >>, << 9902, 6806, 8741, 5703 >>, << 9925, 4615, 1641, 3220 >>,
     << 9945, 2189, 5368, 2733 >>, << 9961, 9469, 8091, 7455 >>, << 9975, 6405, 259, 8242 >>,
     << 9986, 2953, 4754, 5739 >>, << 9993, 9082, 7019, 957 >>, << 9998, 4769, 5156, 3912 >> >>

\* sin(d degrees) for d = 0 .. 90
SinWhole(d) == IF d = 90 THEN << 0, 1, 0, 0, 0, 0 >> ELSE << 0, 0 >> \o SinTable[d + 1]

HalfTurn == 180 * Scale
FullTurn == 360 * Scale
QuarterTurn == 90 * Scale

\* Math.PI / 180 = 0.0174532925199433
DEG == << 0, 0, 174, 5329, 2519, 9433 >>

\* the sine of an angle m (in 1/Scale degree) of the first quadrant: from the
\* table at a whole degree d, and beyond it by
\* sin(d + x) = sin d - sin d * (1 - cos x) + cos d * sin x with
\* sin x = x - x^3 / 6 + x^5 / 120 and 1 - cos x = x^2 / 2 - x^4 / 24 + x^6 / 720
\* for the x below one degree
SinQ(m) ==
    IF m % Scale = 0 THEN SinWhole(m \div Scale)
    ELSE
    The({ The({ The({ The({ The({ The({
      LongAdd(LongSub(s, LongMul(s, v)), LongMul(SinWhole(90 - m \div Scale), sx))
      : s \in {SinWhole(m \div Scale)} })
      : v \in {LongAdd(LongSub(LongOver(x2, 2), LongOver(x4, 24)),
                       LongOver(LongMul(x4, x2), 720))} })
      : sx \in {LongAdd(LongSub(x, LongOver(LongMul(x2, x), 6)),
                        LongOver(LongMul(x4, x), 120))} })
      : x4 \in {LongMul(x2, x2)} })
      : x2 \in {LongMul(x, x)} })
      : x \in {LongMul(<< 0, 0, (m % Scale) * (Myriad \div Scale), 0, 0, 0 >>,
                       DEG)} })

\* the sine of an angle a (in 1/Scale degree, any size, either sign): its
\* sign and its magnitude
SinDeg(a) ==
    The({ IF m <= QuarterTurn THEN [sign |-> 1, mag |-> SinQ(m)]
          ELSE IF m <= HalfTurn THEN [sign |-> 1, mag |-> SinQ(HalfTurn - m)]
          ELSE IF m <= HalfTurn + QuarterTurn
          THEN [sign |-> -1, mag |-> SinQ(m - HalfTurn)]
          ELSE [sign |-> -1, mag |-> SinQ(FullTurn - m)]
          : m \in {a % FullTurn} })

\* the cosine
CosDeg(a) == SinDeg(a + QuarterTurn)

(***************************************************************************)
(* Doubles.  A double d is held as its sign bit (1 or -1), its magnitude   *)
(* mag (a Long) and whether the program holds the value exactly (exact).   *)
(* With mag = LongZero it is a zero if exact, and else a residue: a number *)
(* below the sixteenth decimal, such as Math.sin(Math.PI) = 1.2e-16, of    *)
(* which the sign is held and the size in units of 1e-18 (rest).           *)
(***************************************************************************)
Zero(s) == [sign |-> s, mag |-> LongZero, exact |-> TRUE, rest |-> 0]

IsNumber(d) == d.mag # LongZero
IsZero(d) == d.mag = LongZero /\ d.exact

\* the double d to the nearest 1/Fine and to the nearest 1/Scale (d below
\* Myriad)
Micro(d) ==
    The({ d.sign * (m[2] * Fine + m[3] * 100 + (m[4] + 50) \div 100)
          : m \in {d.mag} })
Milli(d) == The({ d.sign * (m[2] * Scale + (m[3] + 5) \div 10) : m \in {d.mag} })

(***************************************************************************)
(* Math.PI - course at a whole number m of quarter turns (180 -            *)
(* courseAngleDeg = 90 * m, so courseAngleDeg = 90 * q with q = 2 - m).    *)
(* The doubles: DEG is 5030640723926329 / 2^58, Math.PI is                 *)
(* 7074237752028440 / 2^51, and 90 * DEG falls 10 / 2^58 above             *)
(* Math.PI / 2.  course = courseAngleDeg * DEG is the product rounded to   *)
(* the 53 bits of a double, x = Math.PI - course is the difference rounded *)
(* again, and pi itself lies 35.2980408 / 2^58 above Math.PI; so x is not  *)
(* m * pi / 2, and Math.sin(x) or Math.cos(x) is not 0 but, up to its      *)
(* sign, what x is off by.  The two roundings depend on the low bits of    *)
(* the products only.                                                      *)
(***************************************************************************)
\* the exponent of the double q * pi / 2: the e with 2^e <= q * pi / 2 < 2^(e+1)
Exponent(q) == Cardinality({e \in 1 .. 16 : q * 355 >= 226 * 2 ^ e})

\* the last bits of 90 * q * DEG, in 1 / 2^58: 90 * q times the last 24 bits
\* of DEG, 5414201, multiplied in halves of 12 bits
LowBits(q, bits) ==
    The({ (a[2] * b[2]
             + ((a[2] * b[1] + a[1] * b[2]) % (2 ^ 12)) * (2 ^ 12)) % (2 ^ bits)
          : a \in {<< ((90 * q) % (2 ^ bits)) \div (2 ^ 12),
                      ((90 * q) % (2 ^ bits)) % (2 ^ 12) >>},
            b \in {<< (5414201 % (2 ^ bits)) \div (2 ^ 12),
                      (5414201 % (2 ^ bits)) % (2 ^ 12) >>} })

\* what rounding to the nearest multiple of 2^s, ties to even, adds to a
\* number of which t are the last s + 1 bits
RoundingError(t, s) ==
    The({ IF low < 2 ^ (s - 1) \/ (low = 2 ^ (s - 1) /\ t < 2 ^ s)
          THEN 0 - low
          ELSE (2 ^ s) - low
          : low \in {t % (2 ^ s)} })

\* x - m * pi / 2 for the double x = Math.PI - course, in 1/100 of 1 / 2^58.
\* e1 is the rounding of course (to 2^(Exponent(q) - 52)) and e2 that of
\* x (to 2^(Exponent(|m|) - 52)), both in 1 / 2^58; 11544 are the last 17
\* bits of Math.PI.
TurnResidue(m) ==
    The({ The({ The({
      100 * (e2 - Sgn(q) * e1 - 10 * q) - 1700 * m - (m * 64902 + 500) \div 1000
      : e2 \in {Sgn(m) * RoundingError(
                  (Sgn(m) * ((11544 % (2 ^ (sx - 6))) * (2 ^ 7)
                               - Sgn(q) * (LowBits(Abs(q), sx + 1) + e1)))
                    % (2 ^ (sx + 1)), sx)} })
      : e1 \in {RoundingError(LowBits(Abs(q), Exponent(Abs(q)) + 7),
                              Exponent(Abs(q)) + 6)},
        sx \in {Exponent(Abs(m)) + 6} })
      : q \in {2 - m} })

\* the double that is flip times what x is off by at m quarter turns: +0
\* where x is 0 (the course of 180 degrees), and else a residue, its size
\* in 1e-18 (1 / 2^58 is 3.4694e-18)
Turned(flip, m) ==
    The({ IF r = 0 THEN Zero(1)
          ELSE [sign |-> Sgn(r), mag |-> LongZero, exact |-> FALSE,
                rest |-> FineMul(Abs(r), 34694)]
          : r \in {flip * TurnResidue(m)} })

\* Math.sin(Math.PI - course) for the angle a of 180 degrees - course, in
\* 1/Scale degree.  At a = n * 180 degrees x is n * pi + r and the sine
\* is r or -r, as n is even or odd.
MathSin(a) ==
    IF a % HalfTurn # 0
    THEN The({ [sign |-> s.sign, mag |-> s.mag, exact |-> FALSE, rest |-> 0]
               : s \in {SinDeg(a)} })
    ELSE Turned(IF (a \div HalfTurn) % 2 = 0 THEN 1 ELSE -1, 2 * (a \div HalfTurn))

\* Math.cos(Math.PI - course).  At a = m * 90 degrees, m odd, x is
\* m * pi / 2 + r and the cosine is -r or r, as m is 1 or 3 beyond a
\* multiple of 4; at a = n * 180 degrees it is 1 or -1 exactly.
MathCos(a) ==
    IF a % HalfTurn = QuarterTurn
    THEN Turned(IF (a \div QuarterTurn) % 4 = 1 THEN -1 ELSE 1, a \div QuarterTurn)
    ELSE The({ [sign |-> c.sign, mag |-> c.mag, exact |-> a % HalfTurn = 0,
                rest |-> 0]
               : c \in {CosDeg(a)} })

\* tw * d for a plain number tw (in 1/Scale) and a double d
Times(tw, d) ==
    [sign |-> (IF tw < 0 THEN -1 ELSE 1) * d.sign,
     mag |-> LongMul(Plain(tw), d.mag),
     exact |-> tw = 0 \/ d.exact,
     rest |-> FMul(Abs(tw), d.rest)]

\* d - b for a double d and a plain number b (in 1/Scale): the doubles it can
\* be.  d - 0 is d, sign included; a zero or a residue less b is -b; a
\* difference of two exact numbers that vanishes is +0; where d is a rounded
\* product of the magnitude |b| (such as 10 * Math.cos(...) with the cosine
\* one half up to its last bit, less 5) the difference is +0 or a residue of
\* either sign, of a size below the sixteenth decimal of d.
Minus(d, b) ==
    IF b = 0 THEN {d}
    ELSE IF ~IsNumber(d)
    THEN { [sign |-> -Sgn(b), mag |-> Plain(b), exact |-> TRUE, rest |-> 0] }
    ELSE IF d.sign = -Sgn(b)
    THEN { [sign |-> d.sign, mag |-> LongAdd(d.mag, Plain(b)), exact |-> d.exact,
            rest |-> 0] }
    ELSE IF d.mag = Plain(b)
    THEN (IF d.exact THEN { Zero(1) }
          ELSE { Zero(1) }
                 \cup { [sign |-> sg, mag |-> LongZero, exact |-> FALSE, rest |-> 0]
                        : sg \in {1, -1} })
    ELSE IF LongLeq(Plain(b), d.mag)
    THEN { [sign |-> d.sign, mag |-> LongSub(d.mag, Plain(b)), exact |-> d.exact,
            rest |-> 0] }
    ELSE { [sign |-> -Sgn(b), mag |-> LongSub(Plain(b), d.mag), exact |-> d.exact,
            rest |-> 0] }

\* Two-limb naturals <<h, l>> = h * Limb + l, for the squares under the root
Limb == Myriad * Myriad
Norm2(p) == << p[1] + p[2] \div Limb, p[2] % Limb >>
Sq2(x) ==
    LET xh == x \div Myriad
        xl == x % Myriad
        m == 2 * xh * xl
    IN  Norm2(<< xh * xh + m \div Myriad, (m % Myriad) * Myriad + xl * xl >>)
Add2(p, q) == Norm2(<< p[1] + q[1], p[2] + q[2] >>)
Leq2(p, q) == p[1] < q[1] \/ (p[1] = q[1] /\ p[2] <= q[2])

\* the largest r in lo .. hi-1 with r * r <= n (n two-limb), by bisection
RECURSIVE RootBetween(_, _, _)
RootBetween(n, lo, hi) ==
    IF hi - lo <= 1 THEN lo
    ELSE The({ IF Leq2(Sq2(mid), n) THEN RootBetween(n, mid, hi)
               ELSE RootBetween(n, lo, mid) : mid \in {(lo + hi) \div 2} })

\* Math.hypot, of two whole numbers below 2^27: the root lies between the
\* larger of the two and their sum
vecMag(x, y) ==
    The({ RootBetween(Add2(Sq2(a), Sq2(b)), Max(a, b), a + b + 1)
          : a \in {Abs(x)}, b \in {Abs(y)} })

\* the largest whole degree d in lo .. hi-1 not above the angle of (x, y)
RECURSIVE DegreeBetween(_, _, _, _)
DegreeBetween(x, y, lo, hi) ==
    IF hi - lo <= 1 THEN lo
    ELSE The({ IF LongLeq(LongMul(x, SinWhole(mid)), LongMul(y, SinWhole(90 - mid)))
               THEN DegreeBetween(x, y, mid, hi)
               ELSE DegreeBetween(x, y, lo, mid) : mid \in {(lo + hi) \div 2} })

\* 180 / Math.PI, in 1/Fine
RAD == 57295780

\* the angle (in 1e-9 radian) whose tangent is t (in 1e-9), for an angle
\* below one degree: t - t^3 / 3
ArcTan(t) ==
    LET t2 == ToScale(FineMul(t, t))
        t3 == ToScale(FineMul(t, t2))
    IN  t - (t3 + 1) \div 3

\* the limb i of a Long, 0 beyond the sixth
LimbAt(x, i) == IF i <= 6 THEN x[i] ELSE 0

\* c / dot in 1e-9, for c < dot / 50: the first eight digits of dot under
\* the digits of c that stand against them and two more, by long division;
\* p is the first limb of dot that is not 0 and n the number of its digits
Tangent(c, dot) ==
    The({ The({ The({
      LongDivision(w[1] \div w[2], w[1] % w[2], w[2], 7)
      : w \in {<< LimbAt(c, p) * 10 ^ (10 - n) + LimbAt(c, p + 1) * 10 ^ (6 - n)
                    + (LimbAt(c, p + 2) * Myriad + LimbAt(c, p + 3)) \div 10 ^ (n + 2),
                  LimbAt(dot, p) * 10 ^ (8 - n)
                    + (LimbAt(dot, p + 1) * Myriad + LimbAt(dot, p + 2)) \div 10 ^ n
               >>} })
      : n \in {IF dot[p] < 10 THEN 1 ELSE IF dot[p] < 100 THEN 2
                ELSE IF dot[p] < 1000 THEN 3 ELSE 4} })
      : p \in {CHOOSE i \in 1 .. 6 :
                  dot[i] # 0 /\ \A j \in 1 .. (i - 1) : dot[j] = 0} })

\* the angle in [0, 90] degrees (in 1/Fine) of the direction (x, y), two
\* Longs not 0: the whole degree d below it, and the angle beyond d from its
\* tangent, |v| * sin(angle(v) - d) over |v| * cos(angle(v) - d) for the
\* vector v = (x, y)
AcuteAngle(x, y) ==
    The({ IF d = 90 THEN 90 * Fine
          ELSE d * Fine
                 + ToScale(FineMul(ArcTan(Tangent(
                     LongSub(LongMul(y, SinWhole(90 - d)), LongMul(x, SinWhole(d))),
                     LongAdd(LongMul(x, SinWhole(90 - d)), LongMul(y, SinWhole(d))))),
                     RAD))
          : d \in {DegreeBetween(x, y, 0, 91)} })

\* Math.atan2(y, x) * RAD for the doubles x and y, in 1/Fine degree.  With y
\* a zero or a residue against a number x the result is 0 or 180 degrees
\* with the sign bit of y; with x one against a number y it is 90 degrees
\* with the sign of y; with neither a number, an exact zero is the smaller
\* of the two.
angleDegFromXY(x, y) ==
    IF ~IsNumber(y)
    THEN IF IsNumber(x) \/ IsZero(y) \/ ~IsZero(x)
         THEN (IF x.sign > 0 THEN 0 ELSE y.sign * 180 * Fine)
         ELSE y.sign * 90 * Fine
    ELSE IF ~IsNumber(x) THEN y.sign * 90 * Fine
    ELSE The({ IF y.sign > 0
               THEN (IF x.sign > 0 THEN phi ELSE 180 * Fine - phi)
               ELSE (IF x.sign > 0 THEN -phi ELSE phi - 180 * Fine)
               : phi \in {AcuteAngle(x.mag, y.mag)} })

clamp(x, lo, hi) == Max(lo, Min(hi, x))

(***************************************************************************)
(* The Force Model: compute (physics.ts).  Inputs and outputs in 1/Scale;  *)
(* between them the apparent wind as two doubles, its speed, the angles    *)
(* and the coefficients in 1/Fine, and forces in 1/Scale.                  *)
(***************************************************************************)
rho == 1225
clAlphaPerDeg == 110
k == 60
SheetLimit == 85 * Scale

\* const eps = 1e-9, in 1e-9 (1/Scale of 1/Fine)
eps == 1

\* n more digits of the quotient q of hi.lo / (mag + num / den), and the
\* last one rounded to the nearest.  The next digit d is how many times the
\* divisor goes into ten times the remainder, held as hi and lo / den.
RECURSIVE UnitDigits(_, _, _, _, _, _, _)
UnitDigits(mag, q, hi, lo, n, num, den) ==
    IF n = 0
    THEN q + (IF mag - 2 * hi <= (2 * lo - num) \div den THEN 1 ELSE 0)
    ELSE The({ UnitDigits(mag, 10 * q + d,
                          10 * hi - d * mag + (10 * lo - d * num) \div den,
                          (10 * lo - d * num) % den, n - 1, num, den)
               : d \in {Cardinality({j \in 1 .. 9 :
                          j * mag - 10 * hi <= (10 * lo - j * num) \div den})} })

\* The doubles x and y as whole numbers w[1] and w[2] of 10^(-w[3]), signs
\* apart: the first eight digits of the larger one and the digits of the
\* other that stand against them, the last one rounded.  Two residues are
\* held in 1e-17.
Window(x, y) ==
    IF ~IsNumber(x) /\ ~IsNumber(y)
    THEN << x.rest \div 10, y.rest \div 10, 17 >>
    ELSE The({ The({ The({
           << LimbAt(x.mag, p) * 10 ^ (8 - n)
                + (LimbAt(x.mag, p + 1) * Myriad + LimbAt(x.mag, p + 2)
                     + (10 ^ n) \div 2) \div (10 ^ n),
              LimbAt(y.mag, p) * 10 ^ (8 - n)
                + (LimbAt(y.mag, p + 1) * Myriad + LimbAt(y.mag, p + 2)
                     + (10 ^ n) \div 2) \div (10 ^ n),
              4 * p - n >>
           : n \in {IF p = 5 THEN 4
                    ELSE IF top < 10 THEN 1 ELSE IF top < 100 THEN 2
                    ELSE IF top < 1000 THEN 3 ELSE 4} })
           : top \in {Max(x.mag[p], y.mag[p])} })
           : p \in {Min(5, CHOOSE i \in 1 .. 6 :
                       /\ x.mag[i] # 0 \/ y.mag[i] # 0
                       /\ \A j \in 1 .. (i - 1) : x.mag[j] = 0 /\ y.mag[j] = 0)} })

\* while (alphaDeg > 180) alphaDeg -= 360, from alphaDeg = a after n turns
\* of the loops: the value left and the turns made
RECURSIVE WhileAbove(_, _)
WhileAbove(a, n) ==
    IF a > 180 * Fine THEN WhileAbove(a - 360 * Fine, n + 1) ELSE << a, n >>

\* while (alphaDeg < -180) alphaDeg += 360
RECURSIVE WhileBelow(_, _)
WhileBelow(a, n) ==
    IF a < -180 * Fine THEN WhileBelow(a + 360 * Fine, n + 1) ELSE << a, n >>

\* the two loops, one after the other
Normalize(a) == The({ WhileBelow(p[1], p[2]) : p \in {WhileAbove(a, 0)} })

SailAngleUnclamped(sheetingDeg) == sheetingDeg

\* clamp(inputs.sheetingDeg, -85, 85), in 1/Scale
SailAngle(sheetingDeg) == clamp(sheetingDeg, -SheetLimit, SheetLimit)

Flatness(downhaul, outhaul) ==
    clamp(FineMul(Fine \div 2, downhaul * Scale) + FineMul(Fine \div 2, outhaul * Scale),
          0, Fine)

StallDegShallow(flatness) == 8 * Fine - FineMul(5 * Fine, flatness)

StallDeg(flatness) == 18 * Fine - FineMul(5 * Fine, flatness)
ClMax(flatness) == (12 * Fine) \div 10 - FineMul((4 * Fine) \div 10, flatness)
Cd0(flatness) == (8 * Fine) \div 100 - FineMul((2 * Fine) \div 100, flatness)

LiftCoefficientUncapped(alphaDeg, flatness) ==
    FineMul(clAlphaPerDeg * Scale,
            clamp(alphaDeg, -StallDeg(flatness), StallDeg(flatness)))

LiftCoefficient(alphaDeg, flatness) ==
    LET alphaLin == clamp(alphaDeg, -StallDeg(flatness), StallDeg(flatness))
        cl == FineMul(clAlphaPerDeg * Scale, alphaLin)
    IN  clamp(cl, -ClMax(flatness), ClMax(flatness))

DragCoefficient(cl, flatness) == Cd0(flatness) + FineMul(FineMul(k * Scale, cl), cl)

LiftSign(alphaDeg) == IF alphaDeg >= 0 THEN 1 ELSE -1

ResultantDifference(l, d) == l - d

\* F = L + D, one component
Resultant(l, d) == l + d

ApparentWindAdded(inputs) ==
    The({ { [x |-> x, y |-> y]
            : x \in Minus(Times(inputs.trueWindSpeed, MathCos(a)), -inputs.boardSpeed),
              y \in Minus(Times(inputs.trueWindSpeed, MathSin(a)), 0) }
          : a \in {HalfTurn - inputs.courseAngleDeg} })

\* Apparent wind = wind - board velocity: the pairs of doubles it can be.
\* Vw_x = tw * Math.cos(Math.PI - course), Vw_y = tw * Math.sin(...),
\* Vb = (boardSpeed, 0), Va = Vw - Vb.
ApparentWind(inputs) ==
    The({ { [x |-> x, y |-> y]
            : x \in Minus(Times(inputs.trueWindSpeed, MathCos(a)), inputs.boardSpeed),
              y \in Minus(Times(inputs.trueWindSpeed, MathSin(a)), 0) }
          : a \in {HalfTurn - inputs.courseAngleDeg} })

\* The stages of compute.  Each takes the values computed so far as a
\* record s and adds its own.

\* lines 54-72: apparent wind vector, speed and angle, for each pair of
\* doubles the components can be.  Va = vecMag(Va_x, Va_y) is taken once, of
\* the doubles: hypot holds it in the units of their window, and Va to the
\* nearest 1/Fine.
WindStage(inputs) ==
    { The({ The({ [Va_x |-> w.x, Va_y |-> w.y, window |-> v, hypot |-> h,
                   Va |-> IF v[3] >= 15 THEN 0
                          ELSE IF v[3] >= 6
                          THEN (h + (10 ^ (v[3] - 6)) \div 2) \div (10 ^ (v[3] - 6))
                          ELSE h * 10 ^ (6 - v[3]),
                   awaDeg |-> angleDegFromXY(w.x, w.y)]
                  : h \in {vecMag(v[1], v[2])} })
            : v \in {Window(w.x, w.y)} })
      : w \in ApparentWind(inputs) }

AlphaFromCourse(inputs, s) ==
    clamp((HalfTurn - inputs.courseAngleDeg) - SailAngle(inputs.sheetingDeg),
          -2000 * Scale, 2000 * Scale) * Scale

\* line 77: let alphaDeg = awaDeg - sailAngleDeg, before the two loops
AlphaBeforeLoops(inputs, s) == s.awaDeg - SailAngle(inputs.sheetingDeg) * Scale

\* How far (in 1/Fine degree) the awaDeg held here may lie from the double
\* Math.atan2(Va_y, Va_x) * RAD: the components are held to sixteen
\* decimals and the angle is rounded to 1/Fine degree, which leaves it
\* within one 1/Fine of the double, whatever the wind speed.  With a
\* component a zero or a residue the angle is a whole number of quarter
\* turns, as the double is.
AngleSlack(s) == IF IsNumber(s.Va_x) /\ IsNumber(s.Va_y) THEN 2 ELSE 0

\* lines 77-79: alphaDeg after the two loops and the turns they made, from
\* the value before them.  With that value within the slack of 180 or -180
\* degrees the last bits of Math.sin, Math.cos and Math.atan2, which the
\* language leaves to the engine, decide whether a loop runs: both courses
\* of the loops are taken, from the two ends of the slack.
NormalizedAlphas(before, slack) ==
    The({ {r} \cup { o \in {Normalize(before + slack), Normalize(before - slack)}
                     : o[2] # r[2] }
          : r \in {Normalize(before)} })

\* lines 81-97: the coefficients at an angle of attack
Coefficients(alphaDeg, flatness) ==
    The({ [alphaDeg |-> alphaDeg, cl |-> cl, cd |-> DragCoefficient(cl, flatness)]
          : cl \in {LiftCoefficient(alphaDeg, flatness)} })

\* lines 74-97: angle of attack, turns of the loops and coefficients, for
\* each value the loops can leave
TrimStage(inputs, s) ==
    The({ { The({ [alphaDeg |-> c.alphaDeg, turns |-> r[2], cl |-> c.cl, cd |-> c.cd]
                  : c \in {Coefficients(r[1], flatness)} })
            : r \in NormalizedAlphas(AlphaBeforeLoops(inputs, s), AngleSlack(s)) }
          : flatness \in {Flatness(inputs.downhaul, inputs.outhaul)} })

\* lines 99-105: force magnitudes and the unit vector of the apparent wind.
\* ux = Va_x / (Va + eps) and uy = Va_y / (Va + eps) are quotients of the
\* doubles, whatever their size, to the nearest 1/Fine: the components and
\* Va in the units of their window and eps, as e[1] / e[2], in the same
\* units.  No case is made of Va = 0: the divisor is eps there and the
\* quotient 0 / eps = 0.
MagnitudeStage(inputs, s, t) ==
    The({ [liftN |-> FineMul(qA, t.cl), dragN |-> FineMul(qA, t.cd),
           ux |-> s.Va_x.sign * UnitDigits(s.hypot, 0, s.window[1], 0, 6, e[1], e[2]),
           uy |-> s.Va_y.sign * UnitDigits(s.hypot, 0, s.window[2], 0, 6, e[1], e[2])]
          : e \in {IF s.window[3] >= 9
                   THEN << eps * 10 ^ (s.window[3] - 9), 1 >>
                   ELSE << eps, 10 ^ (9 - s.window[3]) >>},
            qA \in {FineMul(FineMul(FineMul(FineMul(Fine \div 2, rho * Scale), s.Va),
                                    s.Va),
                            inputs.sailArea)} })

\* lines 107-114: drag opposite the apparent wind, lift perpendicular to it
VectorStage(t, m) ==
    [D_x |-> FineMul(-m.dragN, m.ux), D_y |-> FineMul(-m.dragN, m.uy),
     L_x |-> FineMul(LiftSign(t.alphaDeg) * m.liftN, -m.uy),
     L_y |-> FineMul(LiftSign(t.alphaDeg) * m.liftN, m.ux)]

\* lines 116-140: the resultant and the returned record
ResultStage(inputs, s, t, m, v) ==
    The({ [apparentWindSpeed |-> ToScale(s.Va),
           apparentWindAngleDeg |-> ToScale(s.awaDeg),
           alphaDeg |-> ToScale(t.alphaDeg), cl |-> ToScale(t.cl),
           cd |-> ToScale(t.cd),
           liftN |-> m.liftN, dragN |-> m.dragN,
           Va_x |-> Milli(s.Va_x), Va_y |-> Milli(s.Va_y),
           L_x |-> v.L_x, L_y |-> v.L_y,
           D_x |-> v.D_x, D_y |-> v.D_y, F_x |-> F[1], F_y |-> F[2],
           driveN |-> F[1], sideN |-> F[2],
           powerW |-> FMul(F[1], inputs.boardSpeed)]
          : F \in {<< Resultant(v.L_x, v.D_x), Resultant(v.L_y, v.D_y) >>} })

\* the record compute returns, from the wind and trim stages
Returned(inputs, s, t) ==
    The({ The({ ResultStage(inputs, s, t, m, v)
            : v \in {VectorStage(t, m)} })
            : m \in {MagnitudeStage(inputs, s, t)} })

\* the wind and trim stages compute can go through, as pairs
Stages(inputs) ==
    UNION { { << s, t >> : t \in TrimStage(inputs, s) } : s \in WindStage(inputs) }

\* compute(inputs): the records it can return, one but where a last bit of
\* the doubles decides (see Minus, NormalizedAlphas)
compute(inputs) ==
    The({ { Returned(in, p[1], p[2]) : p \in Stages(in) } : in \in {inputs} })

(***************************************************************************)
(* Doubles, for the sweep variable V of the Top-Speed Solver.  A           *)
(* non-negative double below 32 is a whole number of 2^-56, held in three  *)
(* words <<a, b, c>> = a * Word^2 + b * Word + c.  0.1 is the double       *)
(* 0x1.999999999999ap-4, that is 0x1999999999999a * 2^-56.                 *)
(***************************************************************************)
Word == 2 ^ 24
OneTop == 2 ^ 8

DZero == << 0, 0, 0 >>
DTenth == << 25, 10066329, 10066330 >>
DThirty == << 30 * OneTop, 0, 0 >>

DLeq(p, q) ==
    \/ p[1] < q[1]
    \/ p[1] = q[1] /\ p[2] < q[2]
    \/ p[1] = q[1] /\ p[2] = q[2] /\ p[3] <= q[3]

DCarry(p) ==
    LET c == p[3] % Word
        b1 == p[2] + p[3] \div Word
    IN  << p[1] + b1 \div Word, b1 % Word, c >>

\* the weight of the last of the 53 bits of a number whose top word is a
RECURSIVE Ulp(_)
Ulp(a) == IF a < 32 THEN 1 ELSE 2 * Ulp(a \div 2)

\* round to 53 significant bits, to nearest, ties to even
DRound(p) ==
    LET u == Ulp(p[1])
        r == p[3] % u
        down == p[3] - r
        up == IF 2 * r > u \/ (2 * r = u /\ (down \div u) % 2 = 1)
              THEN down + u ELSE down
    IN  DCarry(<< p[1], p[2], up >>)

\* p + q in double arithmetic
DAdd(p, q) == DRound(DCarry(<< p[1] + q[1], p[2] + q[2], p[3] + q[3] >>))

\* the double p as a fixed-point number, to the nearest 1/Scale
DToFixed(p) ==
    \* p[1] * Scale / OneTop + p[2] * Scale / (OneTop * Word); rest counts
    \* 1/Word, and the third word is below its resolution
    LET whole == (p[1] * Scale) \div OneTop
        rest == ((p[1] * Scale) % OneTop) * (Word \div OneTop)
                  + (p[2] \div OneTop) * Scale
    IN  whole + (rest + Word \div 2) \div Word

(***************************************************************************)
(* The Top-Speed Solver: topSpeed (App.tsx).                               *)
(***************************************************************************)
\* 1.943844, in 1/Fine
KnotsPerMps == 1943844

\* water drag at speed v
WaterDrag(c0, c2, v) == c0 + FMul(FMul(c2, v), v)

\* const drive = Math.max(0, -outV.driveN)
Drive(o) == Max(0, -o.driveN)

\* How far (in 1/Scale newton) drive - waterDrag as held here may lie from
\* the difference of the two doubles: the forces are rounded to 1/Scale at
\* each product, and the unit vector of the apparent wind to 1/Fine, which
\* the lift and the drag multiply.  With waterC2 = 0 and waterC0 <= 0 the
\* drag is waterC0 as it stands, and a drive, never below 0, is never below
\* it.
SweepSlack(o, c0, c2) ==
    IF c2 = 0 /\ c0 <= 0 THEN 0
    ELSE 4 + (Abs(o.liftN) + Abs(o.dragN)) \div Fine

SustainsReversed(drive, waterDrag, slack) == {drive <= waterDrag}

\* if (drive >= waterDrag): the ways the test can go.  Within the slack the
\* last bits of the two doubles decide.
Sustains(drive, waterDrag, slack) ==
    IF drive - waterDrag >= slack THEN {TRUE}
    ELSE IF waterDrag - drive > slack THEN {FALSE}
    ELSE {TRUE, FALSE}

TopSpeedResult(in, c0, c2, b) ==
    LET v == DToFixed(b)
    IN  { [mps |-> b,
           kn |-> FineMul(v, KnotsPerMps),
           driveN |-> -o.driveN,
           waterDragN |-> WaterDrag(c0, c2, v)]
          : o \in compute([in EXCEPT !.boardSpeed = v]) }


(***************************************************************************)
(* The preset store (presets.ts).  A name is a sequence of characters.  A  *)
(* JSON text is a record: blank (null or the empty string), wellFormed     *)
(* (JSON.parse accepts it), isArray (its value is an array) and items (the *)
(* array's entries).  An entry records what the code asks of it: isObject  *)
(* (truthy), nameIsString with name, hasInputs (inputs truthy) with        *)
(* inputs, and createdAt.                                                  *)
(***************************************************************************)
PresetCap == 50
ImportCap == 200

\* new Date().toISOString(): the clock does not advance in the model
Now == "now"

NoInputs ==
    [trueWindSpeed |-> 0, courseAngleDeg |-> 0, boardSpeed |-> 0,
     sailArea |-> 0, sheetingDeg |-> 0, downhaul |-> 0, outhaul |-> 0]

\* { name, createdAt, inputs }
Preset(name, createdAt, in) ==
    [isObject |-> TRUE, nameIsString |-> TRUE, name |-> name,
     createdAt |-> createdAt, hasInputs |-> TRUE, inputs |-> in]

NoText == [blank |-> TRUE, wellFormed |-> FALSE, isArray |-> FALSE, items |-> << >>]

\* a text JSON.parse rejects, and one whose value is not an array
NotJson == [blank |-> FALSE, wellFormed |-> FALSE, isArray |-> FALSE, items |-> << >>]
NotArray == [blank |-> FALSE, wellFormed |-> TRUE, isArray |-> FALSE, items |-> << >>]

\* JSON.stringify of an array of entries
stringify(presets) ==
    [blank |-> FALSE, wellFormed |-> TRUE, isArray |-> TRUE, items |-> presets]

\* String.prototype.trim
IsSpace(c) == c = " "
RECURSIVE TrimStart(_)
TrimStart(s) == IF s # << >> /\ IsSpace(Head(s)) THEN TrimStart(Tail(s)) ELSE s
RECURSIVE TrimEnd(_)
TrimEnd(s) ==
    IF s # << >> /\ IsSpace(s[Len(s)]) THEN TrimEnd(SubSeq(s, 1, Len(s) - 1)) ELSE s
trim(s) == TrimEnd(TrimStart(s))

\* String.prototype.toLowerCase
LowerChar(c) ==
    IF c = "A" THEN "a" ELSE IF c = "M" THEN "m" ELSE IF c = "P" THEN "p" ELSE c
toLowerCase(s) == [i \in DOMAIN s |-> LowerChar(s[i])]

\* p && typeof p.name === "string" && p.inputs
IsValidPreset(p) == p.isObject /\ p.nameIsString /\ p.hasInputs

\* Array.prototype.slice(0, n)
Slice(a, n) == SubSeq(a, 1, Min(n, Len(a)))

\* loadPresets, reading the stored text raw
loadPresets(raw) ==
    IF raw.blank THEN << >>
    ELSE IF ~raw.wellFormed THEN << >>
    ELSE IF ~raw.isArray THEN << >>
    ELSE SelectSeq(raw.items, IsValidPreset)

\* the names of the presets loadPresets gives
StoredNames(raw) ==
    The({ {presets[i].name : i \in DOMAIN presets} : presets \in {loadPresets(raw)} })

\* savePresets: the text stored
savePresets(presets) == stringify(presets)

\* presets.findIndex(p => p.name.toLowerCase() === lower), counting from 1,
\* and 0 where the code gives -1
FindIndex(presets, lower) ==
    LET S == {i \in DOMAIN presets : toLowerCase(presets[i].name) = lower}
    IN  IF S = {} THEN 0 ELSE CHOOSE i \in S : \A j \in S : i <= j

\* presets.find(pp => pp.name === name): the index of the first preset of
\* that name, and 0 where the code gives undefined
Find(presets, name) ==
    LET S == {i \in DOMAIN presets : presets[i].name = name}
    IN  IF S = {} THEN 0 ELSE CHOOSE i \in S : \A j \in S : i <= j

PrependKeepingAll(next, presets) == << next >> \o presets

\* [next, ...presets].slice(0, 50)
PrependCapped(next, presets) == Slice(<< next >> \o presets, PresetCap)

\* the text stored after upsertPreset(name, in)
upsertPreset(raw, name, in) ==
    LET presets == loadPresets(raw)
        trimmed == trim(name)
        idx == FindIndex(presets, toLowerCase(trimmed))
        next == Preset(trimmed, Now, in)
    IN  IF trimmed = << >> THEN raw
        ELSE IF idx > 0 THEN savePresets([presets EXCEPT ![idx] = next])
        ELSE savePresets(PrependCapped(next, presets))

\* presets.filter(p => p.name !== name): the entries kept, in their order
KeptInOrder(presets, keep) ==
    The({ [j \in 1 .. Cardinality(keep) |-> presets[CHOOSE i \in keep : rank[i] = j]]
          : rank \in {[i \in keep |-> Cardinality({m \in keep : m <= i})]} })
Without(presets, name) ==
    The({ KeptInOrder(presets, keep)
          : keep \in {{i \in DOMAIN presets : presets[i].name # name}} })

\* the text stored after deletePreset(name)
deletePreset(raw, name) == savePresets(Without(loadPresets(raw), name))

ImportNeverThrows(text) == FALSE

\* importPresetsJson(text) throws: JSON.parse fails, or the value is not an
\* array, or an entry fails the light validation
ImportThrows(text) ==
    \/ ~text.wellFormed
    \/ ~text.isArray
    \/ \E i \in DOMAIN text.items : ~IsValidPreset(text.items[i])

\* the text stored after importPresetsJson(text)
importPresetsJson(raw, text) ==
    IF ImportThrows(text) THEN raw ELSE savePresets(Slice(text.items, ImportCap))

\* no preset function has been called yet
NoCall ==
    [op |-> "none", name |-> << >>, inputs |-> NoInputs, text |-> NoText,
     threw |-> FALSE]

(***************************************************************************)
(* The application state (App.tsx).  inputs, waterC0 and waterC2 are the   *)
(* values set by the sliders, the inputs also by a loaded preset; out is   *)
(* the memoised compute(inputs); pc, V, best, evals and hits are the       *)
(* position of the top-speed sweep, its loop variable, its running result, *)
(* the number of Force Model evaluations its loop has made and the number  *)
(* of them at which drive >= waterDrag held and best was assigned;         *)
(* topSpeed is the memoised result of the sweep.  storage is the           *)
(* text held under STORAGE_KEY in localStorage, and selectedPreset the     *)
(* name chosen in the preset list.  The React state presets is             *)
(* loadPresets() at construction and the value returned by the last preset *)
(* function after it, which is what loadPresets() gives for the stored     *)
(* text; the model reads it from storage.  call is the last direct call of *)
(* a preset function, with its arguments and whether it threw.             *)
(***************************************************************************)
VARIABLES inputs, waterC0, waterC2, out, pc, V, best, evals, hits, topSpeed,
          storage, call, selectedPreset

vars == << inputs, waterC0, waterC2, out, pc, V, best, evals, hits, topSpeed,
           storage, call, selectedPreset >>

\* useState(...) initial values
DefaultInputs ==
    [trueWindSpeed |-> 10 * Scale, courseAngleDeg |-> 120 * Scale,
     boardSpeed |-> 8 * Scale, sailArea |-> (65 * Scale) \div 10,
     sheetingDeg |-> 20 * Scale, downhaul |-> (4 * Scale) \div 10,
     outhaul |-> (3 * Scale) \div 10]
DefaultWaterC0 == 30 * Scale
DefaultWaterC2 == (12 * Scale) \div 10

NoOutputs ==
    [apparentWindSpeed |-> 0, apparentWindAngleDeg |-> 0, alphaDeg |-> 0,
     cl |-> 0, cd |-> 0, liftN |-> 0, dragN |-> 0,
     Va_x |-> 0, Va_y |-> 0, L_x |-> 0, L_y |-> 0,
     D_x |-> 0, D_y |-> 0, F_x |-> 0, F_y |-> 0,
     driveN |-> 0, sideN |-> 0, powerW |-> 0]
NoTopSpeed == [mps |-> DZero, kn |-> 0, driveN |-> 0, waterDragN |-> 0]

\* let best = 0
InitialBest == DZero

\* a render with new values: out is recomputed and the sweep starts
Render(in, c0, c2) ==
    /\ inputs' = in
    /\ waterC0' = c0
    /\ waterC2' = c2
    /\ out' \in compute(in)
    /\ pc' = "sweep"
    /\ V' = DZero
    /\ best' = InitialBest
    /\ evals' = 0
    /\ hits' = 0
    /\ topSpeed' = NoTopSpeed
    /\ UNCHANGED << storage, call >>

Init ==
    /\ inputs = DefaultInputs
    /\ waterC0 = DefaultWaterC0
    /\ waterC2 = DefaultWaterC2
    /\ out \in compute(DefaultInputs)
    /\ pc = "sweep"
    /\ V = DZero
    /\ best = InitialBest
    /\ evals = 0
    /\ hits = 0
    /\ topSpeed = NoTopSpeed
    /\ storage = NoText
    /\ call = NoCall
    /\ selectedPreset = << >>

\* one turn of the loop body, and V += 0.1
SweepStep ==
    /\ pc = "sweep"
    /\ DLeq(V, DThirty)
    /\ \E v \in {DToFixed(V)} :
         \E outV \in compute([inputs EXCEPT !.boardSpeed = v]) :
           \E held \in Sustains(Drive(outV), WaterDrag(waterC0, waterC2, v),
                                SweepSlack(outV, waterC0, waterC2)) :
             /\ best' = IF held THEN V ELSE best
             /\ hits' = IF held THEN hits + 1 ELSE hits
    /\ V' = DAdd(V, DTenth)
    /\ evals' = evals + 1
    /\ UNCHANGED << inputs, waterC0, waterC2, out, pc, topSpeed, storage, call,
                    selectedPreset >>

\* the loop condition fails: the result is built from best
SweepEnd ==
    /\ pc = "sweep"
    /\ ~DLeq(V, DThirty)
    /\ topSpeed' \in TopSpeedResult(inputs, waterC0, waterC2, best)
    /\ pc' = "done"
    /\ UNCHANGED << inputs, waterC0, waterC2, out, V, best, evals, hits, storage, call,
                    selectedPreset >>

\* slider positions explored
SliderValues ==
    [trueWindSpeed |-> {2 * Scale, 10 * Scale},
     courseAngleDeg |-> {120 * Scale},
     boardSpeed |-> {8 * Scale},
     sailArea |-> {(65 * Scale) \div 10},
     sheetingDeg |-> {20 * Scale},
     downhaul |-> {(4 * Scale) \div 10},
     outhaul |-> {(3 * Scale) \div 10}]
WaterC0Values == {0, 30 * Scale}
WaterC2Values == {0, (12 * Scale) \div 10}

\* a Slider's setValue on one of the seven inputs
SetInput(f, v) ==
    /\ pc = "done"
    /\ v # inputs[f]
    /\ Render([inputs EXCEPT ![f] = v], waterC0, waterC2)
    /\ UNCHANGED selectedPreset

SetWaterC0(v) ==
    /\ pc = "done"
    /\ v # waterC0
    /\ Render(inputs, v, waterC2)
    /\ UNCHANGED selectedPreset

SetWaterC2(v) ==
    /\ pc = "done"
    /\ v # waterC2
    /\ Render(inputs, waterC0, v)
    /\ UNCHANGED selectedPreset

\* useState("My preset"): the name in the preset name field
presetName == << "M", "y", " ", "p", "r", "e", "s", "e", "t" >>

\* texts a user may paste into the import field: one that is not JSON, and
\* a preset with another course and less wind than the slider allows
Calm == [DefaultInputs EXCEPT !.trueWindSpeed = Scale, !.courseAngleDeg = 90 * Scale]
PastedTexts ==
    { NotJson, stringify(<< Preset(<< "c", "a", "l", "m" >>, "then", Calm) >>) }

\* applyInputs(x): the seven setters in one event.  With the values
\* unchanged nothing is rendered again.
applyInputs(x) ==
    IF x = inputs
    THEN UNCHANGED << inputs, waterC0, waterC2, out, pc, V, best, evals, hits, topSpeed,
                      storage, call >>
    ELSE Render(x, waterC0, waterC2)

\* the Save button
SavePreset ==
    /\ pc = "done"
    /\ storage' = upsertPreset(storage, presetName, inputs)
    /\ selectedPreset' = trim(presetName)
    /\ UNCHANGED << inputs, waterC0, waterC2, out, pc, V, best, evals, hits, topSpeed,
                    call >>

\* the preset list's onChange, with the option chosen
SelectPreset(name) ==
    /\ pc = "done"
    /\ name # selectedPreset
    /\ selectedPreset' = name
    /\ \E p \in {loadPresets(storage)} :
         IF Find(p, name) > 0 THEN applyInputs(p[Find(p, name)].inputs)
         ELSE UNCHANGED << inputs, waterC0, waterC2, out, pc, V, best, evals, hits,
                           topSpeed, storage, call >>

\* the Load button
LoadPreset ==
    /\ pc = "done"
    /\ \E p \in {loadPresets(storage)} :
         /\ Find(p, selectedPreset) > 0
         /\ applyInputs(p[Find(p, selectedPreset)].inputs)
    /\ UNCHANGED selectedPreset

\* the Delete button
DeleteSelected ==
    /\ pc = "done"
    /\ selectedPreset # << >>
    /\ storage' = deletePreset(storage, selectedPreset)
    /\ selectedPreset' = << >>
    /\ UNCHANGED << inputs, waterC0, waterC2, out, pc, V, best, evals, hits, topSpeed,
                    call >>

\* the Import JSON button, with the text of the import field; where
\* importPresetsJson throws, the handler shows the message and changes
\* nothing
ImportPasted(text) ==
    /\ pc = "done"
    /\ storage' = importPresetsJson(storage, text)
    /\ selectedPreset' = IF ImportThrows(text) THEN selectedPreset ELSE << >>
    /\ UNCHANGED << inputs, waterC0, waterC2, out, pc, V, best, evals, hits, topSpeed,
                    call >>

Next ==
    \/ SweepStep
    \/ SweepEnd
    \/ \E f \in DOMAIN SliderValues : \E v \in SliderValues[f] : SetInput(f, v)
    \/ \E v \in WaterC0Values : SetWaterC0(v)
    \/ \E v \in WaterC2Values : SetWaterC2(v)
    \/ SavePreset
    \/ \E name \in StoredNames(storage) \cup {<< >>} : SelectPreset(name)
    \/ LoadPreset
    \/ DeleteSelected
    \/ \E text \in PastedTexts : ImportPasted(text)

Spec == Init /\ [][Next]_vars


(***************************************************************************)
(* The Force Model on its own: compute applied to each input of a bounded  *)
(* input space, which reaches beyond the slider ranges (compute is         *)
(* exported, and a loaded preset may hold any numbers): a grid of winds,   *)
(* courses, board speeds and trims; course angles many turns away; and     *)
(* light airs, a wind of a few thousandths of a metre per second against a *)
(* board as slow or far faster, on courses next to 180 degrees.            *)
(***************************************************************************)
MaxWind == 2
MaxBoard == 2
MaxTurns == 1
MaxFarTurns == 6

TrueWindSpeeds == {5 * Scale * i : i \in 0 .. MaxWind}
BoardSpeeds == {5 * Scale * i : i \in 0 .. MaxBoard}
HalfDegrees == {0, 61, 120, 180, 240, 360, 480, 540, 550}
CourseAngles ==
    {(c * Scale) \div 2 + t * FullTurn : c \in HalfDegrees, t \in -MaxTurns .. MaxTurns}
SheetingAngles == {d * Scale : d \in {-120, -85, -60, -20, 0, 20, 85, 120}}
DownhaulValues == {-(Scale \div 2), (4 * Scale) \div 10, (3 * Scale) \div 2}
OuthaulValues == {(3 * Scale) \div 10, Scale}

\* course angles five and six turns away, and four half and quarter turns
\* some twenty and forty turns away
FarCourses ==
    [trueWindSpeed : TrueWindSpeeds,
     courseAngleDeg :
       {(c * Scale) \div 2 + t * FullTurn
          : c \in HalfDegrees,
            t \in {-MaxFarTurns, 1 - MaxFarTurns, MaxFarTurns - 1, MaxFarTurns}}
         \cup {-14490 * Scale, -7380 * Scale, 7560 * Scale, 14670 * Scale},
     boardSpeed : BoardSpeeds, sailArea : {(65 * Scale) \div 10},
     sheetingDeg : {d * Scale : d \in {-85, 0, 20, 120}},
     downhaul : {(4 * Scale) \div 10}, outhaul : {(3 * Scale) \div 10}]

LightAirs ==
    [trueWindSpeed : {1, 23},
     courseAngleDeg : {120 * Scale, 179 * Scale, HalfTurn - 1, HalfTurn, HalfTurn + 1},
     boardSpeed : {0, 1, 23, 8 * Scale}, sailArea : {(65 * Scale) \div 10},
     sheetingDeg : {-1, 0, 20 * Scale},
     downhaul : {(4 * Scale) \div 10}, outhaul : {(3 * Scale) \div 10}]

InputSpace ==
    [trueWindSpeed : TrueWindSpeeds, courseAngleDeg : CourseAngles,
     boardSpeed : BoardSpeeds, sailArea : {(65 * Scale) \div 10},
     sheetingDeg : SheetingAngles, downhaul : DownhaulValues,
     outhaul : OuthaulValues]
      \cup FarCourses \cup LightAirs

ForceInit ==
    /\ inputs \in InputSpace
    /\ waterC0 = DefaultWaterC0
    /\ waterC2 = DefaultWaterC2
    /\ out = NoOutputs
    /\ pc = "call"
    /\ V = DZero
    /\ best = InitialBest
    /\ evals = 0
    /\ hits = 0
    /\ topSpeed = NoTopSpeed
    /\ storage = NoText
    /\ call = NoCall
    /\ selectedPreset = << >>

\* out = compute(inputs)
ComputeCall ==
    /\ pc = "call"
    /\ out' \in compute(inputs)
    /\ pc' = "returned"
    /\ UNCHANGED << inputs, waterC0, waterC2, V, best, evals, hits, topSpeed,
                    storage, call, selectedPreset >>

ForceNext == ComputeCall

ForceSpec == ForceInit /\ [][ForceNext]_vars

(***************************************************************************)
(* The preset functions on their own: upsertPreset and deletePreset called *)
(* in any order, from an empty store.  Names are the ones a user may type  *)
(* (blank, padded, differing in case only) and numbered names "p001",      *)
(* "p002", ..., each new one the number after the highest stored.          *)
(***************************************************************************)
MaxFillers == 52

Digits == << "0", "1", "2", "3", "4", "5", "6", "7", "8", "9" >>
Filler(i) ==
    << "p", Digits[((i \div 100) % 10) + 1], Digits[((i \div 10) % 10) + 1],
       Digits[(i % 10) + 1] >>

TypedNames == { << " ", " " >>, << " ", "a", " " >>, << "A" >> }
DeletedNames == { << "a" >>, << "A" >> }
\* the name typed with the inputs saved under it
TypedInputs(name) ==
    IF name = << "A" >> THEN [DefaultInputs EXCEPT !.sheetingDeg = 0]
    ELSE DefaultInputs

\* the number a numbered name holds, and 0 for any other name
IsDigit(c) == \E d \in DOMAIN Digits : Digits[d] = c
DigitValue(c) == (CHOOSE d \in DOMAIN Digits : Digits[d] = c) - 1
FillerNumber(name) ==
    IF Len(name) = 4 /\ name[1] = "p" /\ \A i \in 2 .. 4 : IsDigit(name[i])
    THEN 100 * DigitValue(name[2]) + 10 * DigitValue(name[3]) + DigitValue(name[4])
    ELSE 0

\* the number after the highest numbered name stored
FirstFresh(raw) ==
    LET used == {0} \cup {FillerNumber(n) : n \in StoredNames(raw)}
    IN  1 + (CHOOSE i \in used : \A j \in used : j <= i)

PresetInit ==
    /\ inputs = DefaultInputs
    /\ waterC0 = DefaultWaterC0
    /\ waterC2 = DefaultWaterC2
    /\ out = NoOutputs
    /\ pc = "presets"
    /\ V = DZero
    /\ best = InitialBest
    /\ evals = 0
    /\ hits = 0
    /\ topSpeed = NoTopSpeed
    /\ storage = NoText
    /\ call = NoCall
    /\ selectedPreset = << >>

\* upsertPreset(name, in)
UpsertPreset(name, in) ==
    /\ pc = "presets"
    /\ storage' = upsertPreset(storage, name, in)
    /\ call' = [op |-> "upsert", name |-> name, inputs |-> in, text |-> NoText,
                threw |-> FALSE]
    /\ UNCHANGED << inputs, waterC0, waterC2, out, pc, V, best, evals, hits, topSpeed,
                    selectedPreset >>

\* deletePreset(name)
DeletePreset(name) ==
    /\ pc = "presets"
    /\ storage' = deletePreset(storage, name)
    /\ call' = [op |-> "delete", name |-> name, inputs |-> NoInputs,
                text |-> NoText, threw |-> FALSE]
    /\ UNCHANGED << inputs, waterC0, waterC2, out, pc, V, best, evals, hits, topSpeed,
                    selectedPreset >>

UpsertTyped == \E name \in TypedNames : UpsertPreset(name, TypedInputs(name))

\* upsertPreset with the next numbered name
UpsertFresh ==
    /\ FirstFresh(storage) <= MaxFillers
    /\ UpsertPreset(Filler(FirstFresh(storage)), DefaultInputs)

DeleteNamed == \E name \in DeletedNames : DeletePreset(name)

PresetNext ==
    \/ UpsertTyped
    \/ UpsertFresh
    \/ DeleteNamed

PresetSpec == PresetInit /\ [][PresetNext]_vars

(***************************************************************************)
(* The preset functions with importPresetsJson: texts that JSON.parse      *)
(* rejects, a value that is not an array, arrays with an entry that fails  *)
(* the validation, and arrays that pass it, one of them longer than the    *)
(* import keeps.                                                           *)
(***************************************************************************)
MaxExtra == 1

\* null
NullEntry ==
    [isObject |-> FALSE, nameIsString |-> FALSE, name |-> << >>,
     createdAt |-> "", hasInputs |-> FALSE, inputs |-> NoInputs]
\* { name: 7, createdAt, inputs }
NumberNamed ==
    [isObject |-> TRUE, nameIsString |-> FALSE, name |-> << >>,
     createdAt |-> "then", hasInputs |-> TRUE, inputs |-> DefaultInputs]
\* { name: "b", createdAt }
WithoutInputs ==
    [isObject |-> TRUE, nameIsString |-> TRUE, name |-> << "b" >>,
     createdAt |-> "then", hasInputs |-> FALSE, inputs |-> NoInputs]

LongList ==
    [i \in 1 .. (ImportCap + MaxExtra) |-> Preset(Filler(i), "then", DefaultInputs)]

ImportTexts ==
    { NoText, NotJson, NotArray,
      stringify(<< >>),
      stringify(<< Preset(<< "b" >>, "then", DefaultInputs), NullEntry >>),
      stringify(<< NumberNamed >>),
      stringify(<< WithoutInputs, Preset(<< "b" >>, "then", DefaultInputs) >>),
      stringify(<< Preset(<< "A" >>, "then", DefaultInputs),
                   Preset(<< "a" >>, "then", DefaultInputs),
                   Preset(<< " " >>, "then", DefaultInputs) >>),
      stringify(LongList) }

\* importPresetsJson(text), and the App's try / catch around it
ImportPresetsJson(text) ==
    /\ pc = "presets"
    /\ storage' = importPresetsJson(storage, text)
    /\ call' = [op |-> "import", name |-> << >>, inputs |-> NoInputs,
                text |-> text, threw |-> ImportThrows(text)]
    /\ UNCHANGED << inputs, waterC0, waterC2, out, pc, V, best, evals, hits, topSpeed,
                    selectedPreset >>

ImportTyped == \E text \in ImportTexts : ImportPresetsJson(text)

ImportNext ==
    \/ UpsertTyped
    \/ UpsertFresh
    \/ DeleteNamed
    \/ ImportTyped

ImportSpec == PresetInit /\ [][ImportNext]_vars

(***************************************************************************)
(* Claims about the Force Model (checked under ForceSpec).                 *)
(***************************************************************************)

\* the wind and trim stages compute went through on its way to out, for the
\* current inputs: the doubles of the apparent wind, and angles and
\* coefficients in 1/Fine, not yet rounded to the 1/Scale of out
Held == { p \in Stages(inputs) : out = Returned(inputs, p[1], p[2]) }

\* C1: for every input the alphaDeg returned by compute is strictly greater
\* than -180 and at most 180.
C1_AlphaHalfOpen ==
    pc = "returned" =>
      \A p \in Held : p[2].alphaDeg > -180 * Fine /\ p[2].alphaDeg <= 180 * Fine

\* C2: for every input, with flatness = clamp(0.5*downhaul + 0.5*outhaul, 0, 1)
\* and clMax = 1.2 - 0.4*flatness, the cl returned by compute satisfies
\* -clMax <= cl <= clMax, also when downhaul or outhaul lie outside [0, 1].
C2_ClWithinClMax ==
    pc = "returned" =>
      LET flatness == Max(0, Min(Fine,
                        (Scale \div 2) * inputs.downhaul
                          + (Scale \div 2) * inputs.outhaul))
          clMax == (12 * Fine) \div 10 - FineMul((4 * Fine) \div 10, flatness)
      IN  \A held \in {Held} :
            /\ held # {}
            /\ \A p \in held :
                  /\ -clMax <= p[2].cl /\ p[2].cl <= clMax
                  /\ out.cl = ToScale(p[2].cl)

\* a trim control outside [0, 1], and the lift coefficient at its cap
C2_Witness ==
    /\ pc = "returned"
    /\ inputs.downhaul > Scale
    /\ \E p \in Held : p[2].cl = ClMax(Flatness(inputs.downhaul, inputs.outhaul))
    /\ out.cl > 0

\* C4: for sheetingDeg > 85 every output field equals the output for the same
\* input with sheetingDeg = 85, and for sheetingDeg < -85 the output with
\* sheetingDeg = -85.
C4_SheetingClamped ==
    pc = "returned" =>
      /\ inputs.sheetingDeg > 85 * Scale =>
           \A c \in {compute([inputs EXCEPT !.sheetingDeg = 85 * Scale])} :
             out \in c /\ compute(inputs) = c
      /\ inputs.sheetingDeg < -85 * Scale =>
           \A c \in {compute([inputs EXCEPT !.sheetingDeg = -85 * Scale])} :
             out \in c /\ compute(inputs) = c

\* a sheeting angle of 120 degrees with wind in the sail
C4_Witness ==
    /\ pc = "returned"
    /\ inputs.sheetingDeg = 120 * Scale
    /\ out.liftN # 0
    /\ out.alphaDeg # 0

\* the apparent wind speed is exactly 0: both components are zeros
ZeroWind(s) == IsZero(s.Va_x) /\ IsZero(s.Va_y)

\* every force of the returned record is 0
NoForce(o) ==
    /\ o.liftN = 0 /\ o.dragN = 0
    /\ o.L_x = 0 /\ o.L_y = 0
    /\ o.D_x = 0 /\ o.D_y = 0
    /\ o.F_x = 0 /\ o.F_y = 0
    /\ o.driveN = 0 /\ o.sideN = 0

\* C7: with trueWindSpeed = boardSpeed and courseAngleDeg = 180 the apparent
\* wind speed is 0, and whenever the apparent wind speed is 0 the lift, drag
\* and resultant forces are all 0: the unit vector is 0 / (0 + eps), with a
\* divisor that is eps and not 0, and the forces are products with 0.
C7_ZeroApparentWind ==
    pc = "returned" =>
      \A held \in {Held} :
        /\ held # {}
        /\ \A p \in held :
             /\ (inputs.trueWindSpeed = inputs.boardSpeed
                   /\ inputs.courseAngleDeg = HalfTurn)
                  => (ZeroWind(p[1]) /\ p[1].Va = 0 /\ out.apparentWindSpeed = 0)
             /\ ZeroWind(p[1]) =>
                  /\ p[1].Va = 0
                  /\ p[1].Va * Scale + eps > 0
                  /\ \A m \in {MagnitudeStage(inputs, p[1], p[2])} :
                       m.ux = 0 /\ m.uy = 0 /\ m.liftN = 0 /\ m.dragN = 0
                  /\ NoForce(out)
             /\ (p[1].Va = 0 \/ out.apparentWindSpeed = 0) => NoForce(out)

\* wind from ahead at the board's own, non-zero speed
C7_Witness ==
    /\ pc = "returned"
    /\ inputs.trueWindSpeed = inputs.boardSpeed
    /\ inputs.boardSpeed > 0
    /\ inputs.courseAngleDeg = HalfTurn
    /\ \E p \in Held : ZeroWind(p[1])
    /\ out.apparentWindSpeed = 0

\* C8: driveN = F_x and sideN = F_y, where (F_x, F_y) is the sum of the lift
\* vector and the drag vector.
C8_DriveIsResultant ==
    pc = "returned" =>
      /\ out.driveN = out.F_x
      /\ out.sideN = out.F_y
      /\ out.F_x = out.L_x + out.D_x
      /\ out.F_y = out.L_y + out.D_y

\* lift and drag both with non-zero components along both axes
C8_Witness ==
    /\ pc = "returned"
    /\ out.L_x # 0 /\ out.L_y # 0
    /\ out.D_x # 0 /\ out.D_y # 0
    /\ out.driveN # 0 /\ out.sideN # 0

\* the side of the apparent wind the lift vector lies on: positive when the
\* lift is the apparent-wind direction turned by +90 degrees (from +x
\* towards +y), negative when turned by -90 degrees, 0 without lift
LiftTurn(o) == Sgn(o.Va_x) * Sgn(o.L_y) - Sgn(o.Va_y) * Sgn(o.L_x)

\* C10: the lift vector is perpendicular to the apparent wind, turned one way
\* for alphaDeg >= 0 and the opposite way for alphaDeg < 0 (non-zero lift).
C10_LiftSideFollowsAlpha ==
    pc = "returned" =>
      /\ out.alphaDeg >= 0 => LiftTurn(out) >= 0
      /\ (out.alphaDeg < 0 /\ out.liftN # 0) => LiftTurn(out) < 0

\* C12: the normalization loops of compute terminate for every input, also
\* for course angles far outside +-360 degrees: the alphaDeg they start from
\* lies within [-265, 265], so together they make at most one turn, and they
\* leave alphaDeg within [-180, 180], a whole number of turns (the turns
\* they made) from where they started.
C12_LoopsBounded ==
    pc = "returned" =>
      \A held \in {Held} :
        /\ held # {}
        /\ \A p \in held :
             \A before \in {AlphaBeforeLoops(inputs, p[1])} :
               /\ -265 * Fine <= before /\ before <= 265 * Fine
               /\ p[2].turns <= 1
               /\ -180 * Fine <= p[2].alphaDeg /\ p[2].alphaDeg <= 180 * Fine
               /\ Abs(Abs(before - p[2].alphaDeg) - p[2].turns * 360 * Fine)
                    <= AngleSlack(p[1])
               /\ out.alphaDeg = ToScale(p[2].alphaDeg)

\* a course angle beyond five full turns, and a loop that made a turn
C12_Witness ==
    /\ pc = "returned"
    /\ Abs(inputs.courseAngleDeg) > 5 * FullTurn
    /\ inputs.trueWindSpeed > 0
    /\ \E p \in Held : p[2].turns = 1 /\ AngleSlack(p[1]) > 0

\* angles of attack from -20 to 20 degrees, every half degree
MaxHalfDegrees == 40
AlphaSamples == {(d * Fine) \div 2 : d \in -MaxHalfDegrees .. MaxHalfDegrees}

\* the least angle of attack (in 1/Fine) that is clMax / 0.11 or more, the
\* one below it, and the two of the other sign
ThresholdSamples(clMax) ==
    The({ {a, a - 1, -a, 1 - a}
          : a \in {((Scale \div 10) * clMax + clAlphaPerDeg \div 10 - 1)
                      \div (clAlphaPerDeg \div 10)} })

\* clamp(0.11 * alphaDeg, -clMax, clMax): the lift coefficient without the
\* stall-angle clamp
ClWithoutStall(alphaDeg, clMax) ==
    Max(-clMax, Min(clMax, FineMul(clAlphaPerDeg * Scale, alphaDeg)))

\* |alphaDeg| >= clMax / 0.11, in whole numbers
BeyondClMax(alphaDeg, clMax) ==
    (clAlphaPerDeg \div 10) * Abs(alphaDeg) >= (Scale \div 10) * clMax

\* cl is the lift coefficient the claim gives for alphaDeg and clMax
AsWithoutStall(cl, alphaDeg, clMax) ==
    /\ cl = ClWithoutStall(alphaDeg, clMax)
    /\ BeyondClMax(alphaDeg, clMax) => Abs(cl) = clMax

\* C13: the stall-angle clamp never changes the lift coefficient of compute:
\* for every alphaDeg and every flatness in [0, 1], cl is
\* clamp(0.11 * alphaDeg, -clMax, clMax), because 0.11 * stallDeg is greater
\* than clMax; hence |cl| = clMax whenever |alphaDeg| >= clMax / 0.11.
C13_StallClampIdle ==
    pc = "returned" =>
      \A f \in {Flatness(inputs.downhaul, inputs.outhaul)} :
        \A clMax \in {(12 * Fine) \div 10 - FineMul((4 * Fine) \div 10, f)} :
          /\ 0 <= f /\ f <= Fine
          /\ FineMul(clAlphaPerDeg * Scale, 18 * Fine - FineMul(5 * Fine, f)) > clMax
          /\ \A held \in {Held} :
                /\ held # {}
                /\ \A p \in held :
                      /\ AsWithoutStall(p[2].cl, p[2].alphaDeg, clMax)
                      /\ out.cl = ToScale(p[2].cl)
          /\ \A a \in AlphaSamples \cup ThresholdSamples(clMax) :
                \A cl \in {LiftCoefficient(a, f)} : AsWithoutStall(cl, a, clMax)

\* an angle of attack beyond the stall angle, where the stall clamp acts, with
\* a flatness strictly inside [0, 1]
C13_Witness ==
    /\ pc = "returned"
    /\ \E f \in {Flatness(inputs.downhaul, inputs.outhaul)} :
          /\ f \in 1 .. (Fine - 1)
          /\ \E p \in Held : Abs(p[2].alphaDeg) > StallDeg(f) /\ Abs(p[2].cl) = ClMax(f)
          /\ \E a \in AlphaSamples : a > 0 /\ LiftCoefficient(a, f) < ClMax(f)

(***************************************************************************)
(* Claims about the Top-Speed Solver (checked under Spec).                 *)
(***************************************************************************)
Tenth == Scale \div 10

\* drive >= waterDrag at speed v, for the current inputs and coefficients
SustainedAt(v) ==
    \A o \in compute([inputs EXCEPT !.boardSpeed = v]) :
      Max(0, -o.driveN) >= waterC0 + FMul(FMul(waterC2, v), v)

\* C3: the speed returned is the largest V in {0, 0.1, ..., 30} for which
\* max(0, -driveN(V)) >= waterC0 + waterC2*V^2; no speed of that set above
\* the result satisfies the condition.
C3_LargestSample ==
    pc = "done" =>
      LET S == {j \in 0 .. 300 : SustainedAt(Tenth * j)}
      IN  /\ \A j \in S : Tenth * j <= DToFixed(topSpeed.mps)
          /\ S # {} => \E j \in S : DToFixed(topSpeed.mps) = Tenth * j

\* C5: with waterC0 = 0 and waterC2 = 0 the solver returns speed = 30.
C5_NoDragSaturates ==
    (pc = "done" /\ waterC0 = 0 /\ waterC2 = 0) => topSpeed.mps = DThirty

\* the speeds the sweep has evaluated so far
SampledSpeeds == {Tenth * j : j \in 0 .. (evals - 1)}

\* drive - waterDrag at speed v, and how far the doubles may lie from it
\* (see SweepSlack)
Margins(v) ==
    { [by |-> Max(0, -o.driveN) - (waterC0 + FMul(FMul(waterC2, v), v)),
       slack |-> 4 + (Abs(o.liftN) + Abs(o.dragN)) \div Fine]
      : o \in compute([inputs EXCEPT !.boardSpeed = v]) }

\* at speed v the doubles satisfy drive >= waterDrag whatever their last
\* bits, and fail it whatever their last bits
ClearlySustainedAt(v) == \A m \in Margins(v) : m.by > m.slack
ClearlyFailsAt(v) == \A m \in Margins(v) : -m.by > m.slack

\* no sampled speed satisfied drive >= waterDrag: the sweep never took the
\* branch that assigns best
NoSampleSustains == hits = 0

\* C6 as stated: when no sampled speed satisfies drive >= waterDrag the
\* result is speed 0, drive force 0 and water drag waterC0.
C6_DefaultZeroDrive ==
    (pc = "done" /\ NoSampleSustains) =>
      /\ topSpeed.mps = DZero
      /\ topSpeed.driveN = 0
      /\ topSpeed.waterDragN = waterC0

\* C6 amended: when no sampled speed satisfies drive >= waterDrag the result
\* is speed 0, water drag waterC0, and as drive force -driveN of compute at
\* boardSpeed 0, whatever its value.  (First conjunct: the j-th sampled
\* speed is j tenths, which is what SampledSpeeds relies on.  Second: the
\* sweep took the branch at no sample only if the condition clearly held at
\* none, and took it at some sample only if it did not clearly fail at all.)
C6_DefaultResult ==
    /\ pc = "sweep" => DToFixed(V) = Tenth * evals
    /\ pc = "done" =>
         IF NoSampleSustains THEN \A v \in SampledSpeeds : ~ClearlySustainedAt(v)
         ELSE \E v \in SampledSpeeds : ~ClearlyFailsAt(v)
    /\ (pc = "done" /\ NoSampleSustains) =>
         /\ best = DZero
         /\ topSpeed.mps = DZero
         /\ topSpeed.kn = 0
         /\ topSpeed.waterDragN = waterC0
         /\ \E o \in compute([inputs EXCEPT !.boardSpeed = 0]) :
              topSpeed.driveN = -o.driveN

\* a finished sweep in which no speed was sustained, with drive at rest
C6_Witness ==
    /\ pc = "done"
    /\ evals > 0
    /\ NoSampleSustains
    /\ \A v \in SampledSpeeds : ClearlyFailsAt(v)
    /\ topSpeed.driveN # 0

\* C11: a top-speed solve ends after exactly 301 Force Model evaluations in
\* its sweep, one for each sampled speed 0, 0.1, ..., 30.
C11_OneEvaluationPerSample ==
    pc = "done" =>
      /\ evals = 301
      /\ SampledSpeeds = {Tenth * j : j \in 0 .. 300}

(***************************************************************************)
(* Claims about the preset store (checked under PresetSpec, ImportSpec).   *)
(***************************************************************************)

\* the stored list: at most 50 presets, no two names equal ignoring case,
\* every name non-empty without a space at either end; and the preset of the
\* last upsertPreset with a non-blank name is in it
C14_StoredList ==
    The({ /\ Len(list) <= 50
          /\ Cardinality({toLowerCase(list[i].name) : i \in DOMAIN list}) = Len(list)
          /\ \A i \in DOMAIN list :
               /\ list[i].nameIsString
               /\ list[i].name # << >>
               /\ Head(list[i].name) # " "
               /\ list[i].name[Len(list[i].name)] # " "
          /\ (call.op = "upsert" /\ trim(call.name) # << >>) =>
               \E i \in DOMAIN list :
                 /\ list[i].name = trim(call.name)
                 /\ list[i].inputs = call.inputs
          : list \in {storage.items} })

\* a call of upsertPreset with a blank name leaves the store as it was
C14_BlankStep ==
    (call'.op = "upsert" /\ \A i \in DOMAIN call'.name : call'.name[i] = " ")
      => storage' = storage

\* C14: starting from an empty preset store, after any sequence of
\* upsertPreset and deletePreset calls the stored list holds at most 50
\* presets, no two stored names are equal ignoring case, and every stored name
\* is non-empty and trimmed; upsertPreset with a blank or whitespace-only name
\* leaves the store unchanged, and after upsertPreset with a non-blank name the
\* store contains a preset with the trimmed name carrying the given inputs.
C14_StoreKept == [](pc = "presets" => C14_StoredList) /\ [][C14_BlankStep]_vars

\* a full store that has dropped its oldest presets, right after a preset
\* whose name differs only in case from a stored one was saved over it
C14_Witness ==
    /\ pc = "presets"
    /\ Len(storage.items) = PresetCap
    /\ Filler(MaxFillers) \in StoredNames(storage)
    /\ Filler(1) \notin StoredNames(storage)
    /\ call.op = "upsert" /\ call.name = << "A" >>
    /\ storage.items[1].name # << "A" >>
    /\ << "A" >> \in StoredNames(storage)
    /\ << "a" >> \notin StoredNames(storage)

\* the first n entries of a list
FirstEntries(list, n) == [i \in 1 .. (IF Len(list) < n THEN Len(list) ELSE n) |-> list[i]]

\* C15: importPresetsJson is all-or-nothing on invalid input: if the text is
\* not valid JSON, is not an array, or contains an entry that is null, has a
\* non-string name or lacks inputs, it throws and the stored presets are left
\* exactly as they were; on valid input it replaces the store with at most the
\* first 200 entries of the array.
C15_ImportStep ==
    call'.op = "import" =>
      IF \/ ~call'.text.wellFormed
         \/ ~call'.text.isArray
         \/ \E i \in DOMAIN call'.text.items :
              \/ ~call'.text.items[i].isObject
              \/ ~call'.text.items[i].nameIsString
              \/ ~call'.text.items[i].hasInputs
      THEN call'.threw /\ storage' = storage
      ELSE /\ ~call'.threw
           /\ storage'.wellFormed /\ storage'.isArray
           /\ storage'.items = FirstEntries(call'.text.items, 200)
           /\ loadPresets(storage') = FirstEntries(call'.text.items, 200)

C15_AllOrNothing == [][C15_ImportStep]_vars

\* a store of 200 imported presets, kept through an import that threw on a
\* null entry
C15_Witness ==
    /\ pc = "presets"
    /\ call.op = "import"
    /\ call.threw
    /\ \E i \in DOMAIN call.text.items : ~call.text.items[i].isObject
    /\ Len(storage.items) = ImportCap
    /\ storage.items[ImportCap].name = Filler(ImportCap)

====
